---- MODULE Spec2Model ----
(***************************************************************************)
(* E-commerce backend (ecommerce-backend/main.py): the products and orders *)
(* collections of the document store, the create_product handler, the      *)
(* create_order workflow (one step per store operation, so that handlers   *)
(* running in different worker processes interleave between them), and the *)
(* paginated list_products / list_orders queries.                          *)
(*                                                                         *)
(* Numbers: a price is a float in the code; the model keeps prices that    *)
(* are multiples of 1/8 (exact in binary floating point, so float          *)
(* arithmetic on them is exact) as an integer count of eighths, and a      *)
(* rounded total_amount as an integer count of hundredths.                 *)
(* The store is taken to answer every operation (no 500 responses), and    *)
(* created_at is left out of the Order document.                           *)
(***************************************************************************)
EXTENDS Integers, Sequences, FiniteSets

\* ---------------------------------------------------------------- bounds
\* products that create_product may insert
MaxProducts == 1
\* largest available_quantity a product is created with
MaxStock == 3
\* largest quantity of an order line
MaxQuantity == 2
\* most lines in one create_order request
MaxLines == 2
\* create_order handlers that may run (concurrently)
NumReqs == 2
\* length of an identifier string (24 for a real ObjectId)
OidLen == 2
\* products that create_product may insert where the listings are checked
MaxListed == 3
\* largest limit of a listing (100 in the code)
MaxLimit == 2
\* largest offset of a listing
MaxOffset == 1

\* ------------------------------------------------------------ identifiers
HexDigits == <<"0", "1", "2", "3", "4", "5", "6", "7", "8", "9",
               "a", "b", "c", "d", "e", "f">>

HexValue(c) == (CHOOSE i \in 1..16 : HexDigits[i] = c) - 1

IsHex(c) == \E i \in 1..16 : HexDigits[i] = c

\* the value ObjectId() raises an exception for
InvalidId == 0 - 1

RECURSIVE HexNumber(_)
HexNumber(s) ==
    IF s = <<>> THEN 0
    ELSE 16 * HexNumber(SubSeq(s, 1, Len(s) - 1)) + HexValue(s[Len(s)])

\* ObjectId(item.product_id): the identifier a hex string of the right length
\* denotes, InvalidId (the exception) for any other string
ObjectIdAnyCharacter(s) ==
    IF Len(s) = OidLen
    THEN HexNumber([i \in 1..Len(s) |-> IF IsHex(s[i]) THEN s[i] ELSE "0"])
    ELSE InvalidId

ObjectId(s) ==
    IF Len(s) = OidLen /\ \A i \in 1..Len(s) : IsHex(s[i])
    THEN HexNumber(s)
    ELSE InvalidId

\* str(doc["_id"]): the identifier as a zero-padded hex string
SerializeId(n) ==
    [i \in 1..OidLen |-> IF i = OidLen THEN HexDigits[(n % 16) + 1] ELSE "0"]

\* a string that is no identifier: a character that is no hex digit
NonHexId == [i \in 1..OidLen |-> "z"]

\* a well-formed identifier the store never assigns (identifiers start at 1)
MissingId == SerializeId(0)

\* -------------------------------------------------------------- numbers
\* round(x, 2) of a float x = n/8, in hundredths: the nearest hundredth, a tie
\* going to the even one (Python rounds the exact binary value half-even)
RoundHalfUp2(n) == (25 * n + 1) \div 2

Round2(n) ==
    LET lo == (25 * n) \div 2
    IN  IF (25 * n) % 2 = 0 THEN lo
        ELSE IF lo % 2 = 0 THEN lo ELSE lo + 1

\* ------------------------------------------------------------ input sets
Prices == {1, 3}
Stocks == 0..MaxStock
Quantities == {0 - 1} \cup (1..MaxQuantity)
Names == {<<"W">>}
Sizes == {"M"}
Users == {"u1"}
\* the inputs of the listings' specification
ListProducts == {[name |-> <<"A", "b">>, size |-> "M"],
                 [name |-> <<"A", "b">>, size |-> "L"],
                 [name |-> <<"c">>, size |-> "M"]}
ListUsers == {"u1", "u2"}
NameFilters == {<<>>, <<"a">>}
SizeFilters == {"", "M"}
Limits == 1..MaxLimit
Offsets == 0..MaxOffset
ProductIdInputs == {SerializeId(n) : n \in 0..MaxProducts} \cup {NonHexId}
ItemInputs == [product_id : ProductIdInputs, quantity : Quantities]
ItemLists == UNION {[1..n -> ItemInputs] : n \in 0..MaxLines}
Reqs == 1..NumReqs

\* ------------------------------------------------------------------ state
VARIABLES
    products_collection,  \* db.products: sequence of documents, _id = position
    orders_collection,    \* db.orders: sequence of documents, _id = position
    created_quantity,     \* history: available_quantity each product was created with
    pc,                   \* per create_order handler: where it stands
    order,                \* per handler: the OrderCreate body
    idx,                  \* per handler: the line of order.items being processed
    product,              \* per handler: the document find_one returned
    order_items,          \* per handler: the lines validated so far
    total_amount,         \* per handler: running total, in eighths
    inserted_id,          \* per handler: result.inserted_id
    response,             \* per handler: status code and body/detail
    list_pc,              \* the listing handler: where it stands
    list_query,           \* the listing handler: filter, limit and offset
    total_count,          \* the listing handler: count_documents' answer
    list_response         \* the listing handler: the page it returned

vars == <<products_collection, orders_collection, created_quantity, pc, order,
          idx, product, order_items, total_amount, inserted_id, response,
          list_pc, list_query, total_count, list_response>>

orderVars == <<pc, order, idx, product, order_items, total_amount, inserted_id,
               response>>

listVars == <<list_pc, list_query, total_count, list_response>>

None == [status |-> 0]
NoOrder == [user_id |-> "", items |-> <<>>]
NoProduct == [price |-> 0, available_quantity |-> 0]
NoQuery == [collection |-> "", limit |-> 0, offset |-> 0]
NoPage == [data |-> <<>>, page |-> [limit |-> 0, offset |-> 0, total |-> 0,
                                    has_next |-> FALSE]]

Init ==
    /\ products_collection = <<>>
    /\ orders_collection = <<>>
    /\ created_quantity = <<>>
    /\ pc = [r \in Reqs |-> "idle"]
    /\ order = [r \in Reqs |-> NoOrder]
    /\ idx = [r \in Reqs |-> 0]
    /\ product = [r \in Reqs |-> NoProduct]
    /\ order_items = [r \in Reqs |-> <<>>]
    /\ total_amount = [r \in Reqs |-> 0]
    /\ inserted_id = [r \in Reqs |-> 0]
    /\ response = [r \in Reqs |-> None]
    /\ list_pc = "idle"
    /\ list_query = NoQuery
    /\ total_count = 0
    /\ list_response = NoPage

\* --------------------------------------------------------------- the store
\* collection.insert_one(doc): the document is stored under the next identifier
InsertOneTwice(collection, doc) == Append(Append(collection, doc), doc)

InsertOne(collection, doc) == Append(collection, doc)

\* ------------------------------------------------------- create_product
\* insert_one(product.dict()); the store assigns the next identifier
create_product(name, price, size, available_quantity) ==
    /\ products_collection' = InsertOne(products_collection,
           [name |-> name, price |-> price, size |-> size,
            available_quantity |-> available_quantity])
    /\ created_quantity' = Append(created_quantity, available_quantity)
    /\ UNCHANGED <<orders_collection, orderVars, listVars>>

\* --------------------------------------------------------- create_order
\* find_one({"_id": product_id}): the document, or "not product"
Exists(product_id) == product_id \in 1..Len(products_collection)

\* the availability check: the line is refused when this holds
InsufficientLoose(available, requested) == available + 1 < requested

Insufficient(available, requested) == available < requested

\* {"$inc": {"available_quantity": -item.quantity}} on one document; stale is
\* the quantity the handler read, which the update does not use
IncSet(doc, stale, quantity) ==
    [doc EXCEPT !.available_quantity = stale - quantity]

IncPlus(doc, stale, quantity) ==
    [doc EXCEPT !.available_quantity = doc.available_quantity + quantity]

Inc(doc, stale, quantity) ==
    [doc EXCEPT !.available_quantity = doc.available_quantity - quantity]

\* raise HTTPException(...): the handler ends with the error response
RaiseSwallowed(r, error) ==
    /\ pc' = [pc EXCEPT ![r] = "insert"]
    /\ response' = [response EXCEPT ![r] = error]

Raise(r, error) ==
    /\ pc' = [pc EXCEPT ![r] = "done"]
    /\ response' = [response EXCEPT ![r] = error]

\* the request arrives: total_amount = 0.0, order_items = []
create_order_begin(r, user_id, items) ==
    /\ pc[r] = "idle"
    /\ \A r2 \in 1..(r - 1) : pc[r2] # "idle"   \* handlers are numbered by arrival
    /\ order' = [order EXCEPT ![r] = [user_id |-> user_id, items |-> items]]
    /\ total_amount' = [total_amount EXCEPT ![r] = 0]
    /\ order_items' = [order_items EXCEPT ![r] = <<>>]
    /\ idx' = [idx EXCEPT ![r] = 1]
    /\ pc' = [pc EXCEPT ![r] = "loop"]
    /\ UNCHANGED <<products_collection, orders_collection, created_quantity,
                   product, inserted_id, response, listVars>>

\* for item in order.items: product_id = ObjectId(item.product_id), 400 when
\* that raises; the loop is left for the insert when the items are exhausted
create_order_parse(r) ==
    /\ pc[r] = "loop"
    /\ IF idx[r] > Len(order[r].items)
       THEN /\ pc' = [pc EXCEPT ![r] = "insert"]
            /\ UNCHANGED response
       ELSE IF ObjectId(order[r].items[idx[r]].product_id) = InvalidId
       THEN Raise(r, [status |-> 400, error |-> "Invalid product_id",
                      product_id |-> order[r].items[idx[r]].product_id])
       ELSE /\ pc' = [pc EXCEPT ![r] = "find"]
            /\ UNCHANGED response
    /\ UNCHANGED <<products_collection, orders_collection, created_quantity,
                   order, idx, product, order_items, total_amount, inserted_id,
                   listVars>>

\* product = find_one(...); 404 when absent; 400 when the stock read is short;
\* otherwise the line is priced and appended to order_items
create_order_find(r) ==
    LET item == order[r].items[idx[r]]
        product_id == ObjectId(item.product_id)
    IN
    /\ pc[r] = "find"
    /\ IF ~Exists(product_id)
       THEN /\ Raise(r, [status |-> 404, error |-> "Product not found",
                         product_id |-> item.product_id])
            /\ UNCHANGED <<product, order_items, total_amount>>
       ELSE LET doc == products_collection[product_id]
            IN  /\ product' = [product EXCEPT ![r] =
                       [price |-> doc.price,
                        available_quantity |-> doc.available_quantity]]
                /\ IF Insufficient(doc.available_quantity, item.quantity)
                   THEN /\ Raise(r, [status |-> 400,
                                     error |-> "Insufficient quantity",
                                     product_id |-> item.product_id,
                                     available |-> doc.available_quantity,
                                     requested |-> item.quantity])
                        /\ UNCHANGED <<order_items, total_amount>>
                   ELSE /\ total_amount' = [total_amount EXCEPT ![r] =
                               @ + doc.price * item.quantity]
                        /\ order_items' = [order_items EXCEPT ![r] =
                               Append(@, [product_id |-> item.product_id,
                                          quantity |-> item.quantity,
                                          price |-> doc.price])]
                        /\ pc' = [pc EXCEPT ![r] = "update"]
                        /\ UNCHANGED response
    /\ UNCHANGED <<products_collection, orders_collection, created_quantity,
                   order, idx, inserted_id, listVars>>

\* update_one({"_id": product_id}, {"$inc": ...}); then the next item
create_order_update(r) ==
    LET item == order[r].items[idx[r]]
        product_id == ObjectId(item.product_id)
    IN
    /\ pc[r] = "update"
    /\ products_collection' = [products_collection EXCEPT ![product_id] =
           Inc(@, product[r].available_quantity, item.quantity)]
    /\ idx' = [idx EXCEPT ![r] = @ + 1]
    /\ product' = [product EXCEPT ![r] = NoProduct]   \* dead until the next find_one
    /\ pc' = [pc EXCEPT ![r] = "loop"]
    /\ UNCHANGED <<orders_collection, created_quantity, order,
                   order_items, total_amount, inserted_id, response, listVars>>

\* order_doc as the handler builds it
OrderDoc(r) ==
    [user_id |-> order[r].user_id,
     items |-> order_items[r],
     total_amount |-> Round2(total_amount[r])]

\* result = orders_collection.insert_one(order_doc)
create_order_insert(r) ==
    /\ pc[r] = "insert"
    /\ orders_collection' = InsertOne(orders_collection, OrderDoc(r))
    /\ inserted_id' = [inserted_id EXCEPT ![r] = Len(orders_collection) + 1]
    /\ pc' = [pc EXCEPT ![r] = "read"]
    /\ UNCHANGED <<products_collection, created_quantity, order, idx, product,
                   order_items, total_amount, response, listVars>>

\* created_order = find_one({"_id": result.inserted_id}), serialized, 201
create_order_return(r) ==
    /\ pc[r] = "read"
    /\ response' = [response EXCEPT ![r] =
           [status |-> 201,
            _id |-> SerializeId(inserted_id[r]),
            body |-> orders_collection[inserted_id[r]]]]
    /\ pc' = [pc EXCEPT ![r] = "done"]
    /\ UNCHANGED <<products_collection, orders_collection, created_quantity,
                   order, idx, product, order_items, total_amount, inserted_id,
                   listVars>>

\* ------------------------------------------------ list_products, list_orders
\* the "i" option of the $regex filter: letters compare without case
Lower(c) ==
    CASE c = "A" -> "a" [] c = "B" -> "b" [] c = "C" -> "c" [] c = "W" -> "w"
      [] OTHER -> c

\* {"$regex": re.escape(name), "$options": "i"}: name occurs in text
RegexSearch(name, text) ==
    \E k \in 0..(Len(text) - Len(name)) :
        \A i \in 1..Len(name) : Lower(text[k + i]) = Lower(name[i])

\* filter_query of list_products: a filter is added only for a non-empty value
MatchesProduct(doc, query) ==
    /\ query.name # <<>> => RegexSearch(query.name, doc.name)
    /\ query.size # "" => doc.size = query.size

\* filter_query of list_orders
MatchesOrder(doc, query) == doc.user_id = query.user_id

\* the identifiers of the documents of the queried collection that match
Matching(query) ==
    IF query.collection = "products"
    THEN {i \in 1..Len(products_collection) :
              MatchesProduct(products_collection[i], query)}
    ELSE {i \in 1..Len(orders_collection) :
              MatchesOrder(orders_collection[i], query)}

\* count_documents(filter_query)
CountDocuments(query) == Cardinality(Matching(query))

\* .sort("_id", 1): the identifiers in ascending order
RECURSIVE SortAscending(_)
SortAscending(ids) ==
    IF ids = {} THEN <<>>
    ELSE LET m == CHOOSE x \in ids : \A y \in ids : x <= y
         IN  <<m>> \o SortAscending(ids \ {m})

\* .skip(offset).limit(limit) of a cursor
SkipLimit(cursor, offset, limit) ==
    SubSeq(cursor, offset + 1,
           IF offset + limit < Len(cursor) THEN offset + limit ELSE Len(cursor))

\* "has_next": offset + limit < total_count
HasNextInclusive(limit, offset, total) == offset + limit <= total

HasNext(limit, offset, total) == offset + limit < total

\* serialize_document: the document with its identifier as a string
SerializeDocument(query, id) ==
    [_id |-> SerializeId(id),
     doc |-> IF query.collection = "products" THEN products_collection[id]
             ELSE orders_collection[id]]

\* find(filter_query).sort("_id", 1).skip(offset).limit(limit), serialized
Find(query) ==
    LET page == SkipLimit(SortAscending(Matching(query)),
                          query.offset, query.limit)
    IN  [k \in 1..Len(page) |-> SerializeDocument(query, page[k])]

\* a listing request arrives and count_documents(filter_query) is answered
list_count(query) ==
    /\ list_pc = "idle"
    /\ list_query' = query
    /\ total_count' = CountDocuments(query)
    /\ list_pc' = "find"
    /\ list_response' = NoPage
    /\ UNCHANGED <<products_collection, orders_collection, created_quantity,
                   orderVars>>

\* GET /products: name and size filters, limit in 1..100, offset >= 0
list_products_count(name, size, limit, offset) ==
    list_count([collection |-> "products", name |-> name, size |-> size,
                limit |-> limit, offset |-> offset])

\* GET /orders/{user_id}: limit in 1..100, offset >= 0
list_orders_count(user_id, limit, offset) ==
    list_count([collection |-> "orders", user_id |-> user_id,
                limit |-> limit, offset |-> offset])

\* the find is answered and the response is built
list_find ==
    /\ list_pc = "find"
    /\ list_response' =
           [data |-> Find(list_query),
            page |-> [limit |-> list_query.limit,
                      offset |-> list_query.offset,
                      total |-> total_count,
                      has_next |-> HasNext(list_query.limit, list_query.offset,
                                           total_count)]]
    /\ list_pc' = "idle"
    /\ UNCHANGED <<products_collection, orders_collection, created_quantity,
                   orderVars, list_query, total_count>>

\* ------------------------------------------------------------------ Next
Next ==
    \/ \E n \in Names, p \in Prices, s \in Sizes, q \in Stocks :
           /\ Len(products_collection) < MaxProducts
           /\ create_product(n, p, s, q)
    \/ \E r \in Reqs, u \in Users, items \in ItemLists :
           create_order_begin(r, u, items)
    \/ \E r \in Reqs : create_order_parse(r)
    \/ \E r \in Reqs : create_order_find(r)
    \/ \E r \in Reqs : create_order_update(r)
    \/ \E r \in Reqs : create_order_insert(r)
    \/ \E r \in Reqs : create_order_return(r)

Spec == Init /\ [][Next]_vars

\* the catalogue and the listings: products of several names and sizes, orders
\* of several users (without lines, one request at a time), and the two
\* listings, whose two store operations interleave with the inserts
ListNext ==
    \/ \E p \in ListProducts :
           /\ Len(products_collection) < MaxListed
           /\ create_product(p.name, 1, p.size, 0)
    \/ \E r \in Reqs, u \in ListUsers :
           /\ \A r2 \in Reqs : pc[r2] \in {"idle", "done"}
           /\ create_order_begin(r, u, <<>>)
    \/ \E r \in Reqs : create_order_parse(r)
    \/ \E r \in Reqs : create_order_insert(r)
    \/ \E r \in Reqs : create_order_return(r)
    \/ \E n \in NameFilters, s \in SizeFilters, l \in Limits, o \in Offsets :
           list_products_count(n, s, l, o)
    \/ \E u \in ListUsers, l \in Limits, o \in Offsets :
           list_orders_count(u, l, o)
    \/ list_find

ListSpec == Init /\ [][ListNext]_vars

\* ================================================================ claims
\* ----------------------------------------------------- auxiliary notions
Stock(p) == products_collection[p].available_quantity

ProductIds == 1..Len(products_collection)

\* the line of its request a handler is processing
Line(r) == order[r].items[idx[r]]

\* the handler has a line in hand
InLine(r) == idx[r] \in 1..Len(order[r].items)

\* the number of lines of its request whose decrement a handler has issued
Issued(r) == IF pc[r] = "idle" THEN 0 ELSE idx[r] - 1

\* the quantity the first n of the items ask of product p
RECURSIVE QuantityFor(_, _, _)
QuantityFor(items, n, p) ==
    IF n = 0 THEN 0
    ELSE QuantityFor(items, n - 1, p)
         + (IF ObjectId(items[n].product_id) = p THEN items[n].quantity ELSE 0)

RECURSIVE SumOver(_, _)
SumOver(f, S) ==
    IF S = {} THEN 0
    ELSE LET x == CHOOSE y \in S : TRUE IN f[x] + SumOver(f, S \ {x})

\* the quantity of product p whose decrement has been issued, over all handlers
IssuedQuantity(p) ==
    SumOver([r \in Reqs |-> QuantityFor(order[r].items, Issued(r), p)], Reqs)

\* the quantity of product p on the lines of the persisted orders
PersistedQuantity(p) ==
    SumOver([o \in 1..Len(orders_collection) |->
                 QuantityFor(orders_collection[o].items,
                             Len(orders_collection[o].items), p)],
            1..Len(orders_collection))

\* the handler's order has been inserted
Persisted(r) == pc[r] = "read" \/ (pc[r] = "done" /\ response[r].status = 201)

\* the handler ended with an error response
Failed(r) == pc[r] = "done" /\ response[r].status # 201

\* t hundredths is n eighths rounded to 2 decimals: nearest, a tie to even
IsRounded2(n, t) ==
    LET d == 25 * n - 2 * t
    IN  /\ d \in {0 - 1, 0, 1}
        /\ d # 0 => t % 2 = 0

\* sum over the first n items of quantity x price, in eighths
RECURSIVE LinesAmount(_, _)
LinesAmount(items, n) ==
    IF n = 0 THEN 0
    ELSE LinesAmount(items, n - 1) + items[n].quantity * items[n].price

\* ---------------------------------------------------------------------- C1
\* C1 (the claim as stated): in every reachable state every product's
\* available_quantity is >= 0, when products are created with a stock >= 0.
C1_StockNeverNegative ==
    \A p \in ProductIds : Stock(p) >= 0

\* ---------------------------------------------------------------------- C2
\* C2: a create_order request ends with an error only at a line that is
\* malformed, references no product or asks more than the stock then read; a
\* request that ends with 201 returns an Order holding the caller's lines in
\* the caller's order, each with the product's price, and a total_amount that
\* is the sum of quantity x price rounded to 2 decimals; and the decrement of
\* a line lowers that product's available_quantity by exactly its quantity.
C2_OrderTotalsAndDecrements ==
    [][\A r \in Reqs :
        /\ (pc[r] = "update" /\ pc'[r] # "update") =>
              LET p == ObjectId(Line(r).product_id)
              IN  /\ products_collection'[p].available_quantity
                         = Stock(p) - Line(r).quantity
                  /\ \A o \in ProductIds \ {p} : Stock(o)' = Stock(o)
        /\ (pc[r] # "done" /\ pc'[r] = "done" /\ response'[r].status = 201) =>
              LET body == response'[r].body
                  items == order[r].items
              IN  /\ body.user_id = order[r].user_id
                  /\ Len(body.items) = Len(items)
                  /\ \A k \in 1..Len(items) :
                        /\ body.items[k].product_id = items[k].product_id
                        /\ body.items[k].quantity = items[k].quantity
                        /\ ObjectId(items[k].product_id) \in ProductIds
                        /\ body.items[k].price =
                              products_collection[ObjectId(items[k].product_id)].price
                  /\ IsRounded2(LinesAmount(body.items, Len(items)),
                                body.total_amount)
                  /\ orders_collection[ObjectId(response'[r]._id)] = body
        /\ (pc[r] # "done" /\ pc'[r] = "done" /\ response'[r].status # 201) =>
              /\ InLine(r)
              /\ LET p == ObjectId(Line(r).product_id)
                 IN  \/ p = InvalidId
                     \/ p \notin ProductIds
                     \/ Stock(p) < Line(r).quantity
      ]_vars

\* a two-line order came back with 201 and a total that was a rounding tie
C2_Witness ==
    \E r \in Reqs :
        /\ pc[r] = "done" /\ response[r].status = 201
        /\ Len(response[r].body.items) = 2
        /\ LinesAmount(response[r].body.items, 2) = 3
        /\ response[r].body.total_amount = 38
        /\ Stock(1) = created_quantity[1] - 3

\* ---------------------------------------------------------------------- C3
\* C3: when the line a handler looks up asks more than the product's current
\* available_quantity, the request ends with 400 "Insufficient quantity"
\* carrying that available amount and the requested one, and the step leaves
\* every product's stock as it was.
C3_InsufficientStock ==
    [][\A r \in Reqs :
        (/\ pc[r] = "find" /\ pc'[r] # "find"
         /\ ObjectId(Line(r).product_id) \in ProductIds
         /\ Line(r).quantity > Stock(ObjectId(Line(r).product_id)))
        => /\ pc'[r] = "done"
           /\ response'[r].status = 400
           /\ response'[r].error = "Insufficient quantity"
           /\ response'[r].available = Stock(ObjectId(Line(r).product_id))
           /\ response'[r].requested = Line(r).quantity
           /\ products_collection' = products_collection
           /\ orders_collection' = orders_collection
      ]_vars

\* the scenario of the claim with stock 3 and orders of 2: the first order
\* succeeded and left 1, the second was refused with available 1, requested 2
C3_Witness ==
    /\ Len(products_collection) = 1 /\ created_quantity[1] = 3
    /\ pc[1] = "done" /\ response[1].status = 201
    /\ order[1].items = <<[product_id |-> SerializeId(1), quantity |-> 2]>>
    /\ pc[2] = "done" /\ response[2].status = 400
    /\ response[2].error = "Insufficient quantity"
    /\ response[2].available = 1 /\ response[2].requested = 2
    /\ Stock(1) = 1

\* ---------------------------------------------------------------------- C4
\* C4: the orders collection changes only by one Order being appended by a
\* handler all of whose lines have been validated and decremented, and it
\* holds exactly one Order per handler that got past the insert: none for a
\* handler that failed or has not reached the insert.
C4_OneOrderPerSuccess ==
    [][/\ orders_collection' # orders_collection =>
            \E r \in Reqs :
                /\ pc[r] = "insert" /\ pc'[r] = "read"
                /\ response[r] = None
                /\ Issued(r) = Len(order[r].items)
                /\ Len(order_items[r]) = Len(order[r].items)
                /\ Len(orders_collection') = Len(orders_collection) + 1
                /\ SubSeq(orders_collection', 1, Len(orders_collection))
                       = orders_collection
                /\ orders_collection'[inserted_id'[r]].items = order_items[r]
       /\ Len(orders_collection') =
              Cardinality({r \in Reqs :
                  pc'[r] = "read"
                  \/ (pc'[r] = "done" /\ response'[r].status = 201)})
      ]_vars

\* one request was persisted and another one failed, leaving one Order
C4_Witness ==
    /\ \E r \in Reqs : pc[r] = "done" /\ response[r].status = 201
                       /\ Len(order[r].items) = 2
    /\ \E r \in Reqs : Failed(r)
    /\ Len(orders_collection) = 1

\* ---------------------------------------------------------------------- C5
\* C5: the step at which a line fails ends the handler and changes neither
\* collection (the decrements of the earlier lines stay), and a handler that
\* has ended never moves again: its later lines are not processed, nothing is
\* compensated and no Order is inserted for it.
C5_NoRollbackOnFailure ==
    [][\A r \in Reqs :
        /\ (response[r] = None /\ response'[r].status \in {400, 404}) =>
              /\ pc'[r] = "done"
              /\ products_collection' = products_collection
              /\ orders_collection' = orders_collection
              /\ idx'[r] = idx[r]
        /\ Failed(r) =>
              /\ pc'[r] = pc[r] /\ idx'[r] = idx[r]
              /\ response'[r] = response[r]
              /\ \A p \in ProductIds :
                    Stock(p)' - Stock(p) =
                        IssuedQuantity(p) - IssuedQuantity(p)'
              /\ Len(orders_collection') =
                     Cardinality({h \in Reqs \ {r} : Persisted(h)'})
      ]_vars

\* the second line of a request failed after the first was decremented: the
\* stock stays lowered by the first line's quantity and there is no Order
C5_Witness ==
    /\ Failed(1) /\ idx[1] = 2 /\ Len(order[1].items) = 2
    /\ order[1].items[1].quantity = 2
    /\ pc[2] = "idle"
    /\ Len(products_collection) = 1
    /\ Stock(1) = created_quantity[1] - 2
    /\ orders_collection = <<>>

\* ---------------------------------------------------------------------- C6
\* a string that is no identifier: not OidLen characters, or a character
\* outside 0-9, a-f
Malformed(s) ==
    \/ Len(s) # OidLen
    \/ \E i \in 1..Len(s) :
           s[i] \notin {"0", "1", "2", "3", "4", "5", "6", "7", "8", "9",
                        "a", "b", "c", "d", "e", "f"}

\* C6: a handler that comes to a line with a malformed product_id ends with
\* 400 "Invalid product_id" straight from the parse, without the lookup step
\* and without reading a product; one that looks up a well-formed product_id
\* that no stored product has ends with 404; neither step changes any stock.
C6_InvalidAndMissingReference ==
    [][\A r \in Reqs :
        /\ (pc[r] = "loop" /\ pc'[r] # "loop" /\ InLine(r)
            /\ Malformed(Line(r).product_id))
           => /\ pc'[r] = "done"
              /\ response'[r].status = 400
              /\ response'[r].error = "Invalid product_id"
              /\ product'[r] = product[r]
              /\ products_collection' = products_collection
        /\ (pc[r] = "loop" /\ pc'[r] = "find")
           => ~Malformed(Line(r).product_id)
        /\ (pc[r] = "find" /\ pc'[r] # "find"
            /\ ObjectId(Line(r).product_id) \notin ProductIds)
           => /\ pc'[r] = "done"
              /\ response'[r].status = 404
              /\ response'[r].error = "Product not found"
              /\ products_collection' = products_collection
      ]_vars

\* one request ended with 400 on a malformed second line and another with 404
\* on an identifier no product has, with a product in the store
C6_Witness ==
    /\ Len(products_collection) = 1
    /\ \E r \in Reqs :
           /\ Failed(r) /\ response[r].status = 400 /\ idx[r] = 2
           /\ response[r].error = "Invalid product_id"
           /\ Malformed(Line(r).product_id)
    /\ \E r \in Reqs :
           /\ Failed(r) /\ response[r].status = 404
           /\ Line(r).product_id = MissingId

\* ---------------------------------------------------------------------- C7
\* C7 (the claim as stated): every persisted Order has only lines with
\* quantity >= 1 and a total_amount >= 0.
C7_PositiveQuantities ==
    \A o \in 1..Len(orders_collection) :
        /\ orders_collection[o].total_amount >= 0
        /\ \A k \in 1..Len(orders_collection[o].items) :
               orders_collection[o].items[k].quantity >= 1

\* ---------------------------------------------------------------------- C9
\* the handler's request is one line for product p with quantity q
SingleLine(r, p, q) ==
    /\ Len(order[r].items) = 1
    /\ ObjectId(order[r].items[1].product_id) = p
    /\ order[r].items[1].quantity = q

\* C9: the availability check is made on the stock read by find_one and the
\* decrement is applied whatever the stock has become since. Whenever two
\* requests of one line each for the same product have both returned 201 and
\* no other request has touched the store, the stock is the created stock
\* less both quantities (negative when they add up to more than it), and a
\* handler that has passed the check decrements even a stock that has since
\* fallen below its quantity.
C9_CheckThenDecrementRace ==
    [][/\ \A r1, r2 \in Reqs, p \in ProductIds, q1, q2 \in Quantities :
            (/\ r1 # r2
             /\ SingleLine(r1, p, q1)' /\ SingleLine(r2, p, q2)'
             /\ (pc[r1] = "done" /\ response[r1].status = 201)'
             /\ (pc[r2] = "done" /\ response[r2].status = 201)'
             /\ \A h \in Reqs \ {r1, r2} : pc'[h] = "idle")
            => Stock(p)' = created_quantity[p] - q1 - q2
       /\ \A r \in Reqs :
            (pc[r] = "update" /\ pc'[r] # "update"
             /\ Stock(ObjectId(Line(r).product_id)) < Line(r).quantity)
            => /\ pc'[r] = "loop"
               /\ products_collection'[ObjectId(Line(r).product_id)]
                      .available_quantity < 0
      ]_vars

\* two requests, each for a quantity the stock covered, together for more,
\* have both returned 201 and the stock is negative
C9_Witness ==
    \E p \in ProductIds, q1, q2 \in Quantities :
        /\ SingleLine(1, p, q1) /\ SingleLine(2, p, q2)
        /\ pc[1] = "done" /\ response[1].status = 201
        /\ pc[2] = "done" /\ response[2].status = 201
        /\ q1 >= 1 /\ q2 >= 1
        /\ q1 <= created_quantity[p] /\ q2 <= created_quantity[p]
        /\ q1 + q2 > created_quantity[p]
        /\ Stock(p) = created_quantity[p] - q1 - q2
        /\ Stock(p) < 0

\* --------------------------------------------------------------------- C10
\* every line whose decrement has been issued asks a positive quantity
IssuedPositive ==
    \A r \in Reqs : \A k \in 1..Issued(r) : order[r].items[k].quantity >= 1

\* a handler that has not (or not yet) persisted an Order has issued a
\* decrement of product p
UnpersistedDecrement(p) ==
    \E r \in Reqs :
        /\ ~Persisted(r)
        /\ \E k \in 1..Issued(r) : ObjectId(order[r].items[k].product_id) = p

\* C10: for every product, the stock it was created with less its current
\* stock is the quantity of the lines whose decrement has been issued; when
\* all those quantities are positive this is at least the quantity on the
\* lines of the persisted Orders, and equal to it exactly when no failed or
\* still running request has issued a decrement of the product.
C10_StockAccounting ==
    \A p \in ProductIds :
        /\ created_quantity[p] - Stock(p) = IssuedQuantity(p)
        /\ IssuedPositive =>
              /\ IssuedQuantity(p) >= PersistedQuantity(p)
              /\ (IssuedQuantity(p) = PersistedQuantity(p))
                     <=> ~UnpersistedDecrement(p)

\* one Order persisted, one request failed after a decrement and one line
\* decremented by a request still running: the stock is lower than the
\* persisted Orders account for
C10_Witness ==
    /\ IssuedPositive
    /\ Len(orders_collection) = 1
    /\ Failed(1) /\ Issued(1) = 1
    /\ Persisted(2)
    /\ PersistedQuantity(1) = 1
    /\ IssuedQuantity(1) = 3
    /\ Stock(1) = created_quantity[1] - 3

\* ---------------------------------------------------------------------- C8
\* the documents of the queried collection that match the filter
MatchingDocuments(query) ==
    IF query.collection = "products"
    THEN {i \in 1..Len(products_collection) :
              /\ query.name = <<>> \/ RegexSearch(query.name,
                                                  products_collection[i].name)
              /\ query.size = "" \/ products_collection[i].size = query.size}
    ELSE {i \in 1..Len(orders_collection) :
              orders_collection[i].user_id = query.user_id}

\* the position of document i among the matching ones, by ascending identifier
Rank(query, i) == Cardinality({j \in MatchingDocuments(query) : j <= i})

\* C8: count_documents answers the number of documents matching the filter;
\* the page returned has total equal to that answer, has_next true exactly
\* when offset + limit < total, and data holding the matching documents at
\* positions offset .. offset+limit-1 by ascending identifier, as they are
\* when the find is answered.
C8_Pagination ==
    [][/\ (list_pc = "idle" /\ list_pc' = "find") =>
              /\ list_query'.limit \in 1..MaxLimit
              /\ list_query'.offset >= 0
              /\ total_count' = Cardinality(MatchingDocuments(list_query'))
       /\ (list_pc = "find" /\ list_pc' = "idle") =>
              LET page == list_response'.page
                  data == list_response'.data
                  found == Cardinality(MatchingDocuments(list_query))
                  rest == found - list_query.offset
              IN  /\ page.total = total_count
                  /\ page.limit = list_query.limit
                  /\ page.offset = list_query.offset
                  /\ page.has_next <=> (page.offset + page.limit < page.total)
                  /\ Len(data) = IF rest <= 0 THEN 0
                                 ELSE IF rest < page.limit THEN rest
                                 ELSE page.limit
                  /\ \A k \in 1..Len(data) :
                        /\ ObjectId(data[k]._id) \in MatchingDocuments(list_query)
                        /\ Rank(list_query, ObjectId(data[k]._id))
                               = page.offset + k
                        /\ data[k].doc =
                               IF list_query.collection = "products"
                               THEN products_collection[ObjectId(data[k]._id)]
                               ELSE orders_collection[ObjectId(data[k]._id)]
      ]_vars

\* a page of the products whose name holds "a", the first product being left
\* out by the filter: the page starts at the second product and has a next
C8_Witness ==
    /\ list_pc = "idle"
    /\ list_query.collection = "products"
    /\ list_query.name = <<"a">>
    /\ Len(products_collection) = 3
    /\ list_response.page.offset = 0
    /\ list_response.page.limit = 1
    /\ list_response.page.total = 2
    /\ list_response.page.has_next
    /\ Len(list_response.data) = 1
    /\ list_response.data[1]._id = SerializeId(2)

====
